---- MODULE Spec2Model ----
(***************************************************************************)
(* Model of src/src/swatch.ts: swatch(input, options) and shadeColor.      *)
(*                                                                         *)
(* A call of swatch is one run of the state machine: Init draws the        *)
(* argument values and the behaviour of the imported collaborators, and    *)
(* the actions are the statements of the function body in program order.   *)
(*                                                                         *)
(* JavaScript numbers are binary floating point, round to nearest, ties to *)
(* even.  The model keeps that arithmetic and scales the significand down  *)
(* from 53 bits to MantBits bits; the exponent range is not bounded, and   *)
(* the infinities and NaN are kept.                                        *)
(***************************************************************************)
EXTENDS Integers, Sequences, FiniteSets, TLC

\* Significand width of the modelled floating-point numbers (53 in binary64).
MantBits == 8

----------------------------------------------------------------------------
\* Floating-point numbers: [k, m, e] is m * 2^e when k = "fin", with
\* 2^(MantBits-1) <= |m| < 2^MantBits, or m = 0 and e = 0.

Fin(m, e) == [k |-> "fin", m |-> m, e |-> e]
PosInf == [k |-> "inf", m |-> 1, e |-> 0]
NegInf == [k |-> "inf", m |-> -1, e |-> 0]
NaN == [k |-> "nan", m |-> 0, e |-> 0]
Zero == Fin(0, 0)

Abs(n) == IF n < 0 THEN -n ELSE n
Sgn(n) == IF n < 0 THEN -1 ELSE IF n = 0 THEN 0 ELSE 1
MaxI(a, b) == IF a < b THEN b ELSE a

RECURSIVE BitLen(_)
BitLen(n) == IF n = 0 THEN 0 ELSE 1 + BitLen(n \div 2)

\* Rounds M * 2^e (M >= 0) to MantBits bits, nearest, ties to even; sticky
\* says that the exact value lies strictly above M * 2^e (below (M+1) * 2^e).
RoundM(M, e, sticky) ==
  IF M = 0 THEN Zero
  ELSE LET b == BitLen(M) IN
    IF b <= MantBits THEN Fin(M * 2^(MantBits - b), e - (MantBits - b))
    ELSE LET sh == b - MantBits
             q == M \div 2^sh
             r == M % 2^sh
             half == 2^(sh - 1)
             up == r > half \/ (r = half /\ (sticky \/ q % 2 = 1))
             m1 == IF up THEN q + 1 ELSE q
         IN IF m1 = 2^MantBits THEN Fin(2^(MantBits - 1), e + sh + 1)
            ELSE Fin(m1, e + sh)

FNegate(a) == IF a.k = "nan" THEN NaN ELSE [a EXCEPT !.m = -a.m]

\* Rounds the signed value M * 2^e.
FRound(M, e) == IF M < 0 THEN FNegate(RoundM(-M, e, FALSE)) ELSE RoundM(M, e, FALSE)

\* Rounds (n / d) * 2^e, n >= 0 and d > 0.
FDivQ(n, d, e) ==
  LET k == MaxI(0, MantBits + 2 + BitLen(d) - BitLen(n))
      q == (n * 2^k) \div d
      r == (n * 2^k) % d
  IN RoundM(q, e - k, r # 0)

\* An integer value, and a decimal literal n/d of the source text.
FInt(n) == FRound(n, 0)
FDec(n, d) == IF n < 0 THEN FNegate(FDivQ(-n, d, 0)) ELSE FDivQ(n, d, 0)
One == FInt(1)

\* a + b
FAdd(a, b) ==
  IF a.k = "nan" \/ b.k = "nan" THEN NaN
  ELSE IF a.k = "inf" /\ b.k = "inf" THEN (IF a.m = b.m THEN a ELSE NaN)
  ELSE IF a.k = "inf" THEN a
  ELSE IF b.k = "inf" THEN b
  ELSE IF a.m = 0 THEN b
  ELSE IF b.m = 0 THEN a
  ELSE IF a.e - b.e > MantBits + 2 THEN a
  ELSE IF b.e - a.e > MantBits + 2 THEN b
  ELSE LET e == IF a.e < b.e THEN a.e ELSE b.e
       IN FRound(a.m * 2^(a.e - e) + b.m * 2^(b.e - e), e)

\* a - b
FSub(a, b) == FAdd(a, FNegate(b))

\* a * b
FMul(a, b) ==
  IF a.k = "nan" \/ b.k = "nan" THEN NaN
  ELSE IF a.k = "inf" \/ b.k = "inf"
    THEN (IF a.m = 0 \/ b.m = 0 THEN NaN
          ELSE IF Sgn(a.m) = Sgn(b.m) THEN PosInf ELSE NegInf)
  ELSE FRound(a.m * b.m, a.e + b.e)

\* a / b
FDiv(a, b) ==
  IF a.k = "nan" \/ b.k = "nan" THEN NaN
  ELSE IF a.k = "inf" THEN (IF b.k = "inf" THEN NaN
                            ELSE IF Sgn(a.m) * Sgn(b.m) < 0 THEN NegInf ELSE PosInf)
  ELSE IF b.k = "inf" THEN Zero
  ELSE IF b.m = 0 THEN (IF a.m = 0 THEN NaN ELSE IF a.m < 0 THEN NegInf ELSE PosInf)
  ELSE LET q == FDivQ(Abs(a.m), Abs(b.m), a.e - b.e)
       IN IF Sgn(a.m) * Sgn(b.m) < 0 THEN FNegate(q) ELSE q

\* a < b, a <= b, a === b (every comparison with NaN is false)
FLt(a, b) ==
  IF a.k = "nan" \/ b.k = "nan" \/ a = b THEN FALSE
  ELSE IF a = PosInf \/ b = NegInf THEN FALSE
  ELSE IF a = NegInf \/ b = PosInf THEN TRUE
  ELSE IF Sgn(a.m) # Sgn(b.m) THEN Sgn(a.m) < Sgn(b.m)
  ELSE IF a.m > 0 THEN a.e < b.e \/ (a.e = b.e /\ a.m < b.m)
  ELSE a.e > b.e \/ (a.e = b.e /\ a.m < b.m)
FEq(a, b) == a.k # "nan" /\ b.k # "nan" /\ a = b
FLe(a, b) == FEq(a, b) \/ FLt(a, b)

\* Math.max and Math.min
FMax(a, b) == IF a.k = "nan" \/ b.k = "nan" THEN NaN ELSE IF FLt(a, b) THEN b ELSE a
FMin(a, b) == IF a.k = "nan" \/ b.k = "nan" THEN NaN ELSE IF FLt(b, a) THEN b ELSE a

RECURSIVE IPow(_, _)
IPow(n, k) == IF k = 0 THEN 1 ELSE n * IPow(n, k - 1)

RECURSIVE SqrtSearch(_, _, _)
SqrtSearch(n, lo, hi) ==
  IF lo = hi THEN lo
  ELSE LET mid == (lo + hi + 1) \div 2
       IN IF mid * mid <= n THEN SqrtSearch(n, mid, hi) ELSE SqrtSearch(n, lo, mid - 1)
\* floor of the square root of n, n < 2^30
ISqrt(n) == SqrtSearch(n, 0, 32767)

\* The number of halves in f, f a multiple of 1/2.
Halves(f) == IF f.e + 1 >= 0 THEN f.m * 2^(f.e + 1) ELSE f.m \div 2^(-(f.e + 1))

\* x ** f for a finite x >= 0 and f a multiple of 1/2 (f >= 0, or f a negative
\* integer): the exact power, rounded once.  0 ** f is 0 for f > 0, 1 for
\* f = 0 and Infinity for f < 0.
FPow(x, f) ==
  LET h == Halves(f) IN
  IF h = 0 THEN One
  ELSE IF x.m = 0 THEN (IF h > 0 THEN Zero ELSE PosInf)
  ELSE IF h > 0 /\ h % 2 = 0 THEN RoundM(IPow(x.m, h \div 2), x.e * (h \div 2), FALSE)
  ELSE IF h > 0 THEN
    LET odd == (x.e * h) % 2 = 1
        M == IF odd THEN 2 * IPow(x.m, h) ELSE IPow(x.m, h)
        E == IF odd THEN x.e * h - 1 ELSE x.e * h
        k == MaxI(0, (2 * MantBits + 5 - BitLen(M)) \div 2)
        N == M * IPow(4, k)
        s == ISqrt(N)
    IN RoundM(s, (E \div 2) - k, s * s # N)
  ELSE FDivQ(1, IPow(x.m, (-h) \div 2), -(x.e * ((-h) \div 2)))

----------------------------------------------------------------------------
\* The imported collaborators (their code is not part of swatch.ts).

\* An input is [kind, model]: kind "nonstring" is a value that is no string,
\* "empty" the empty string, "hex" a hex literal, "named" a named color and
\* "func" a function notation of family model.
isString(in) == in.kind \notin {"nonstring", "empty"}
isHex(in) == in.kind = "hex"
isNamedColor(in) == in.kind = "named"
extractColorParts(in) == [model |-> in.model]
clamp(value, lo, hi) == FMin(FMax(value, lo), hi)
\* formatCSS throws ("UnsupportedFormat") for any other format.
SupportedFormats == {"hex", "rgb", "oklch"}
\* The formatted string determines, and is determined by, the format and the
\* color it was made from.
formatCSS(value, fmt) == [format |-> fmt, l |-> value.l, c |-> value.c, h |-> value.h]

----------------------------------------------------------------------------
\* swatch.ts

\* An option is the empty set when the caller left it out and {v} when given.
Undefined == {}
Given(field) == CHOOSE v \in field : TRUE
OrDefault(field, default) == IF field = Undefined THEN default ELSE Given(field)

\* const { format, lightnessFactor = 1.5, ... } = options
Defaulted(o) ==
  [format |-> o.format,
   lightnessFactor |-> OrDefault(o.lightnessFactor, FDec(15, 10)),
   maxLightness |-> OrDefault(o.maxLightness, FDec(97, 100)),
   minLightness |-> OrDefault(o.minLightness, FDec(2, 10)),
   scale |-> OrDefault(o.scale, "dynamic"),
   swatchSteps |-> OrDefault(o.swatchSteps, 11),
   variant |-> OrDefault(o.variant, "base")]

\* invariant(isString(input), MESSAGES.inputString)
InputAcceptedTypeOnly(in) == in.kind # "nonstring"
InputAccepted(in) == isString(in)

\* maxLightness > minLightness && maxLightness <= 1 && minLightness >= 0
LightnessValidNoUpper(d) ==
  FLt(d.minLightness, d.maxLightness) /\ FLe(Zero, d.minLightness)
LightnessValid(d) ==
  /\ FLt(d.minLightness, d.maxLightness)
  /\ FLe(d.maxLightness, One)
  /\ FLe(Zero, d.minLightness)

\* swatchSteps === 11 || swatchSteps === 21
StepsValid(d) == d.swatchSteps = 11 \/ d.swatchSteps = 21

\* The variant's chroma multiplier.
chromaScaleDeepVibrantSwapped(variant) ==
  CASE variant = "base" -> One
    [] variant = "deep" -> FDec(125, 100)
    [] variant = "neutral" -> FDec(5, 10)
    [] variant = "pastel" -> FDec(3, 10)
    [] variant = "subtle" -> FDec(2, 10)
    [] variant = "vibrant" -> FDec(8, 10)
chromaScale(variant) ==
  CASE variant = "base" -> One
    [] variant = "deep" -> FDec(8, 10)
    [] variant = "neutral" -> FDec(5, 10)
    [] variant = "pastel" -> FDec(3, 10)
    [] variant = "subtle" -> FDec(2, 10)
    [] variant = "vibrant" -> FDec(125, 100)

\* lch.l = 0.7; lch.c *= chromaScale; if (variant === 'deep') lch.l *= 0.7
BaseColor(parsed, variant) ==
  LET l1 == FDec(7, 10)
      c1 == FMul(parsed.c, chromaScale(variant))
      l2 == IF variant = "deep" THEN FMul(l1, FDec(7, 10)) ELSE l1
  IN [l |-> l2, c |-> c1, h |-> parsed.h]

\* isHex(input) || isNamedColor(input) ? 'hex' : extractColorParts(input).model
ColorFormat(in) ==
  IF isHex(in) \/ isNamedColor(in) THEN "hex" ELSE extractColorParts(in).model

\* format ?? colorFormat
ResolveFormatInferredFirst(format, inferred) == inferred
ResolveFormat(format, inferred) == OrDefault(format, inferred)

\* The tone label of a step index.
ToneLinear(steps, index) == IF steps = 11 THEN index * 100 ELSE index * 50
Tone(steps, index) ==
  IF steps = 11
    THEN (IF index = 0 THEN 50 ELSE IF index = 10 THEN 950 ELSE index * 100)
    ELSE (IF index = 0 THEN 0
          ELSE IF index = 1 THEN 50
          ELSE IF index = 20 THEN 1000
          ELSE (index - 1) * 50 + 50)

\* maxLightness - (maxLightness - minLightness) * (index / (swatchSteps - 1)) ** lightnessFactor
LightnessRising(d, index) ==
  FAdd(d.minLightness,
       FMul(FSub(d.maxLightness, d.minLightness),
            FPow(FDiv(FInt(index), FInt(d.swatchSteps - 1)), d.lightnessFactor)))
Lightness(d, index) ==
  FSub(d.maxLightness,
       FMul(FSub(d.maxLightness, d.minLightness),
            FPow(FDiv(FInt(index), FInt(d.swatchSteps - 1)), d.lightnessFactor)))

\* The loop of the dynamic scale: palette[tone] = lightness, index ascending.
DynamicPalette(d) ==
  LET idx == 0..(d.swatchSteps - 1)
      tones == {Tone(d.swatchSteps, i) : i \in idx}
      last(t) == CHOOSE i \in idx :
                   /\ Tone(d.swatchSteps, i) = t
                   /\ \A j \in idx : Tone(d.swatchSteps, j) = t => j <= i
  IN [t \in tones |-> Lightness(d, last(t))]

Fixed11 ==
  (50 :> FDec(97, 100)) @@ (100 :> FDec(92, 100)) @@ (200 :> FDec(85, 100)) @@
  (300 :> FDec(78, 100)) @@ (400 :> FDec(69, 100)) @@ (500 :> FDec(57, 100)) @@
  (600 :> FDec(46, 100)) @@ (700 :> FDec(35, 100)) @@ (800 :> FDec(24, 100)) @@
  (900 :> FDec(18, 100)) @@ (950 :> FDec(1, 10))

Fixed21 ==
  (0 :> FDec(99, 100)) @@ (50 :> FDec(97, 100)) @@ (100 :> FDec(94, 100)) @@
  (150 :> FDec(91, 100)) @@ (200 :> FDec(87, 100)) @@ (250 :> FDec(83, 100)) @@
  (300 :> FDec(78, 100)) @@ (350 :> FDec(73, 100)) @@ (400 :> FDec(67, 100)) @@
  (450 :> FDec(61, 100)) @@ (500 :> FDec(55, 100)) @@ (550 :> FDec(49, 100)) @@
  (600 :> FDec(43, 100)) @@ (650 :> FDec(38, 100)) @@ (700 :> FDec(33, 100)) @@
  (750 :> FDec(28, 100)) @@ (800 :> FDec(23, 100)) @@ (850 :> FDec(19, 100)) @@
  (900 :> FDec(15, 100)) @@ (950 :> FDec(1, 10)) @@ (1000 :> FDec(5, 100))

\* The tone table: if (scale === 'dynamic') {...} else {...}
PaletteAlwaysDynamic(d) == DynamicPalette(d)
Palette(d) ==
  IF d.scale = "dynamic" THEN DynamicPalette(d)
  ELSE IF d.swatchSteps = 11 THEN Fixed11 ELSE Fixed21

\* function shadeColor(input: LCH, lightness: number): LCH
shadeColorUnclamped(in, lightness) ==
  [l |-> lightness,
   c |-> FMul(in.c, IF FEq(in.c, Zero) THEN One
                    ELSE FMul(FMul(FInt(4), lightness), FSub(One, lightness))),
   h |-> in.h]
shadeColorKeepsLightness(in, lightness) ==
  [l |-> FMul(in.l, lightness),
   c |-> clamp(FMul(in.c, IF FEq(in.c, Zero) THEN One
                          ELSE FMul(FMul(FInt(4), lightness), FSub(One, lightness))),
               Zero, FDec(4, 10)),
   h |-> in.h]
shadeColor(in, lightness) ==
  LET scale == IF FEq(in.c, Zero) THEN One
               ELSE FMul(FMul(FInt(4), lightness), FSub(One, lightness))
      chroma == FMul(in.c, scale)
      adjustedChroma == clamp(chroma, Zero, FDec(4, 10))
  IN [l |-> lightness, c |-> adjustedChroma, h |-> in.h]

\* Object.entries(palette).reduce(... shadeColor(lch, value) ...)
Shaded(color, table) == [t \in DOMAIN table |-> shadeColor(color, table[t])]

\* Object.entries(output).reduce(... formatCSS(value, { format: format ?? colorFormat }) ...)
Formatted(out, fmt) == [t \in DOMAIN out |-> formatCSS(out[t], fmt)]

NoResult == <<>>
Failure(err) == [error |-> err, result |-> NoResult]
Success(res) == [error |-> "none", result |-> res]

\* The whole call: what swatch throws or returns.  ev is what the parser and
\* the classifier do with this input: [parseOk, lch, classifyOk].
swatch(in, o, ev) ==
  IF ~InputAccepted(in) THEN Failure("InvalidInput")
  ELSE LET d == Defaulted(o) IN
    IF ~LightnessValid(d) \/ ~StepsValid(d) THEN Failure("InvalidOptions")
    ELSE IF ~ev.parseOk THEN Failure("UnparseableColor")
    ELSE IF ~(isHex(in) \/ isNamedColor(in)) /\ ~ev.classifyOk
      THEN Failure("ClassifierError")
    ELSE LET fmt == ResolveFormat(d.format, ColorFormat(in)) IN
      IF fmt \notin SupportedFormats THEN Failure("UnsupportedFormat")
      ELSE Success(Formatted(Shaded(BaseColor(ev.lch, d.variant), Palette(d)), fmt))

----------------------------------------------------------------------------
\* One call of swatch, statement by statement.

VARIABLES
  input,        \* the first argument
  options,      \* the second argument, as the caller wrote it
  env,          \* what parseCSS and extractColorParts do with input
  pc,           \* the statement the call is at, or "done" / "failed"
  opts,         \* the destructured options, defaults applied
  lch,          \* the working color
  colorFormat,  \* the inferred output format
  palette,      \* tone label -> target lightness
  output,       \* tone label -> shaded color
  result,       \* the returned mapping
  error,        \* the error thrown
  trace         \* the checks and collaborator calls made so far, in order

vars == <<input, options, env, pc, opts, lch, colorFormat, palette, output, result,
          error, trace>>

\* The values the arguments are drawn from.
Some(S) == {{v} : v \in S}
Optional(S) == {Undefined} \cup Some(S)
Inputs ==
  {[kind |-> "nonstring", model |-> "none"], [kind |-> "empty", model |-> "none"],
   [kind |-> "hex", model |-> "none"], [kind |-> "named", model |-> "none"],
   [kind |-> "func", model |-> "rgb"], [kind |-> "func", model |-> "oklch"]}
\* "hwb" stands for a format that formatCSS cannot serialize.
Formats == {"hex", "oklch", "hwb"}
Variants == {"deep", "neutral", "pastel", "subtle", "vibrant"}
Scales == {"dynamic", "fixed"}
StepCounts == {11, 21, 5}
MaxLightnesses == {FDec(5, 10), One, FDec(12, 10), FDec(1, 10)}
MinLightnesses == {Zero, FDec(5, 10), FDec(-1, 10)}
LightnessFactors == {FDec(5, 10), One, FInt(3), Zero, FInt(-1)}
Chromas == {Zero, FDec(1, 10), FDec(5, 10)}
Parsed(c) == [l |-> FDec(6, 10), c |-> c, h |-> 250]

\* Calls that vary the input, the collaborators' behaviour and the format.
ControlCall ==
  /\ input \in Inputs
  /\ env \in [parseOk : BOOLEAN, classifyOk : BOOLEAN, lch : {Parsed(FDec(1, 10))}]
  /\ options \in [format : Optional(Formats),
                  lightnessFactor : {Undefined},
                  maxLightness : {Undefined, {FDec(1, 10)}},
                  minLightness : {Undefined},
                  scale : Optional(Scales),
                  swatchSteps : Optional(StepCounts),
                  variant : {Undefined, {"deep"}}]

\* Calls that vary the numeric options, the variant and the parsed chroma.
NumericCall ==
  /\ input \in {[kind |-> "hex", model |-> "none"]}
  /\ env \in [parseOk : {TRUE}, classifyOk : {TRUE}, lch : {Parsed(c) : c \in Chromas}]
  /\ options \in [format : {Undefined},
                  lightnessFactor : Optional(LightnessFactors),
                  maxLightness : Optional(MaxLightnesses),
                  minLightness : Optional(MinLightnesses),
                  scale : Some(Scales),
                  swatchSteps : Some(StepCounts),
                  variant : Optional(Variants)]

Init ==
  /\ ControlCall \/ NumericCall
  /\ pc = "start"
  /\ opts = <<>>
  /\ lch = <<>>
  /\ colorFormat = ""
  /\ palette = <<>>
  /\ output = <<>>
  /\ result = NoResult
  /\ error = "none"
  /\ trace = <<>>

Throw(err) ==
  /\ pc' = "failed"
  /\ error' = err

\* line 103
CheckInput ==
  /\ pc = "start"
  /\ InputAccepted(input)
  /\ trace' = Append(trace, "isString")
  /\ pc' = "defaults"
  /\ UNCHANGED <<input, options, env, opts, lch, colorFormat, palette, output, result, error>>

CheckInputFail ==
  /\ pc = "start"
  /\ ~InputAccepted(input)
  /\ trace' = Append(trace, "isString")
  /\ Throw("InvalidInput")
  /\ UNCHANGED <<input, options, env, opts, lch, colorFormat, palette, output, result>>

\* lines 104-112
Defaults ==
  /\ pc = "defaults"
  /\ opts' = Defaulted(options)
  /\ pc' = "checkLightness"
  /\ UNCHANGED <<input, options, env, lch, colorFormat, palette, output, result, error, trace>>

\* lines 114-117
CheckLightness ==
  /\ pc = "checkLightness"
  /\ LightnessValid(opts)
  /\ trace' = Append(trace, "checkLightness")
  /\ pc' = "checkSteps"
  /\ UNCHANGED <<input, options, env, opts, lch, colorFormat, palette, output, result, error>>

CheckLightnessFail ==
  /\ pc = "checkLightness"
  /\ ~LightnessValid(opts)
  /\ trace' = Append(trace, "checkLightness")
  /\ Throw("InvalidOptions")
  /\ UNCHANGED <<input, options, env, opts, lch, colorFormat, palette, output, result>>

\* lines 119-122
CheckSteps ==
  /\ pc = "checkSteps"
  /\ StepsValid(opts)
  /\ trace' = Append(trace, "checkSteps")
  /\ pc' = "parse"
  /\ UNCHANGED <<input, options, env, opts, lch, colorFormat, palette, output, result, error>>

CheckStepsFail ==
  /\ pc = "checkSteps"
  /\ ~StepsValid(opts)
  /\ trace' = Append(trace, "checkSteps")
  /\ Throw("InvalidOptions")
  /\ UNCHANGED <<input, options, env, opts, lch, colorFormat, palette, output, result>>

\* line 124
Parse ==
  /\ pc = "parse"
  /\ env.parseOk
  /\ trace' = Append(trace, "parseCSS")
  /\ lch' = env.lch
  /\ pc' = "derive"
  /\ UNCHANGED <<input, options, env, opts, colorFormat, palette, output, result, error>>

ParseFail ==
  /\ pc = "parse"
  /\ ~env.parseOk
  /\ trace' = Append(trace, "parseCSS")
  /\ Throw("UnparseableColor")
  /\ UNCHANGED <<input, options, env, opts, lch, colorFormat, palette, output, result>>

\* lines 125-139
Derive ==
  /\ pc = "derive"
  /\ lch' = BaseColor(lch, opts.variant)
  /\ pc' = "classify"
  /\ UNCHANGED <<input, options, env, opts, colorFormat, palette, output, result, error, trace>>

\* line 141: the calls made, || and ?: evaluating left to right
ClassifyCalls(in) ==
  IF isHex(in) THEN <<"isHex">>
  ELSE IF isNamedColor(in) THEN <<"isHex", "isNamedColor">>
  ELSE <<"isHex", "isNamedColor", "extractColorParts">>

Classify ==
  /\ pc = "classify"
  /\ isHex(input) \/ isNamedColor(input) \/ env.classifyOk
  /\ trace' = trace \o ClassifyCalls(input)
  /\ colorFormat' = ColorFormat(input)
  /\ pc' = "palette"
  /\ UNCHANGED <<input, options, env, opts, lch, palette, output, result, error>>

ClassifyFail ==
  /\ pc = "classify"
  /\ ~(isHex(input) \/ isNamedColor(input) \/ env.classifyOk)
  /\ trace' = trace \o ClassifyCalls(input)
  /\ Throw("ClassifierError")
  /\ UNCHANGED <<input, options, env, opts, lch, colorFormat, palette, output, result>>

\* lines 143-217
BuildPalette ==
  /\ pc = "palette"
  /\ palette' = Palette(opts)
  /\ pc' = "shade"
  /\ UNCHANGED <<input, options, env, opts, lch, colorFormat, output, result, error, trace>>

\* lines 219-226
Shade ==
  /\ pc = "shade"
  /\ output' = Shaded(lch, palette)
  /\ pc' = "format"
  /\ UNCHANGED <<input, options, env, opts, lch, colorFormat, palette, result, error, trace>>

\* lines 228-233
Format ==
  /\ pc = "format"
  /\ ResolveFormat(opts.format, colorFormat) \in SupportedFormats
  /\ trace' = Append(trace, "formatCSS")
  /\ result' = Formatted(output, ResolveFormat(opts.format, colorFormat))
  /\ pc' = "done"
  /\ UNCHANGED <<input, options, env, opts, lch, colorFormat, palette, output, error>>

FormatFail ==
  /\ pc = "format"
  /\ ResolveFormat(opts.format, colorFormat) \notin SupportedFormats
  /\ trace' = Append(trace, "formatCSS")
  /\ Throw("UnsupportedFormat")
  /\ UNCHANGED <<input, options, env, opts, lch, colorFormat, palette, output, result>>

Next ==
  \/ CheckInput \/ CheckInputFail
  \/ Defaults
  \/ CheckLightness \/ CheckLightnessFail
  \/ CheckSteps \/ CheckStepsFail
  \/ Parse \/ ParseFail
  \/ Derive
  \/ Classify \/ ClassifyFail
  \/ BuildPalette
  \/ Shade
  \/ Format \/ FormatFail

Spec == Init /\ [][Next]_vars

Returned == pc = "done"
Finished == pc \in {"done", "failed"}

\* The statements agree with the whole-call operator.
CallAgrees == Finished => swatch(input, options, env) = [error |-> error, result |-> result]

----------------------------------------------------------------------------
\* Properties

Labels11 == {50, 950} \cup {100 * k : k \in 1..9}
Labels21 == {50 * k : k \in 0..20}
Called(x) == \E i \in DOMAIN trace : trace[i] = x
CalledBefore(a, b) ==
  \A j \in DOMAIN trace : trace[j] = b => \E i \in 1..(j - 1) : trace[i] = a
TableBuilt == palette # <<>>
ShadingDone == output # <<>>
Positive(x) == FLt(Zero, x)
Lowest(S) == CHOOSE t \in S : \A u \in S : t <= u
Highest(S) == CHOOSE t \in S : \A u \in S : u <= t
Consecutive(S, t, u) == t \in S /\ u \in S /\ t < u /\ ~\E v \in S : t < v /\ v < u
\* The weight of the last place of a finite non-zero x.
Ulp(x) == FRound(1, x.e)
FAbs(x) == IF x.m < 0 THEN FNegate(x) ELSE x

\* C1: a returned mapping has exactly the labels of its swatchSteps, 50, 100,
\* 200, ..., 900, 950 for 11 and 0, 50, 100, ..., 1000 for 21, and the
\* dynamic labelling and the fixed table of a swatchSteps have the same labels.
C1_KeySet ==
  Returned =>
    /\ opts.swatchSteps = 11 => DOMAIN result = Labels11 /\ Cardinality(DOMAIN result) = 11
    /\ opts.swatchSteps = 21 => DOMAIN result = Labels21 /\ Cardinality(DOMAIN result) = 21
    /\ DOMAIN Palette([opts EXCEPT !.scale = "dynamic"])
         = DOMAIN Palette([opts EXCEPT !.scale = "fixed"])
C1_Witness == Returned /\ opts.scale = "dynamic" /\ opts.swatchSteps = 21

\* The constraint the options must meet, as the claim words its violations.
Violates(d) ==
  \/ FLe(d.maxLightness, d.minLightness)
  \/ FLt(One, d.maxLightness)
  \/ FLt(d.minLightness, Zero)
  \/ d.swatchSteps \notin {11, 21}
OptionsChecked == opts # <<>> /\ pc \notin {"checkLightness", "checkSteps"}

\* C2: once the options are defaulted (0.97, 0.2, 11) and checked, the call
\* has failed with InvalidOptions exactly when minLightness >= maxLightness,
\* maxLightness > 1, minLightness < 0 or swatchSteps is neither 11 nor 21.
C2_Validation ==
  /\ opts # <<>> =>
       /\ options.maxLightness = Undefined => opts.maxLightness = FDec(97, 100)
       /\ options.minLightness = Undefined => opts.minLightness = FDec(2, 10)
       /\ options.swatchSteps = Undefined => opts.swatchSteps = 11
  /\ OptionsChecked => (error = "InvalidOptions" <=> Violates(opts))
C2_Witness ==
  /\ error = "InvalidOptions"
  /\ opts.scale = "fixed"
  /\ opts.variant = "vibrant"
  /\ FLt(One, opts.maxLightness)
  /\ opts.swatchSteps = 11

\* C3: the stages run in order and a failure returns nothing: a bad input
\* fails with InvalidInput before the options are checked and the parser is
\* called, bad options fail with InvalidOptions before the parser is called,
\* classifier and formatter are called only after the parser succeeded, and a
\* collaborator's failure ends the call with that failure and no mapping.
C3_Stages ==
  /\ (~isString(input) /\ pc # "start") =>
       pc = "failed" /\ error = "InvalidInput" /\ trace = <<"isString">>
  /\ error = "InvalidInput" =>
       ~Called("checkLightness") /\ ~Called("checkSteps") /\ ~Called("parseCSS")
  /\ error = "InvalidOptions" => ~Called("parseCSS")
  /\ Called("parseCSS") =>
       /\ isString(input) /\ ~Violates(opts)
       /\ CalledBefore("isString", "parseCSS")
       /\ CalledBefore("checkLightness", "parseCSS")
       /\ CalledBefore("checkSteps", "parseCSS")
  /\ \A x \in {"isHex", "isNamedColor", "extractColorParts", "formatCSS"} :
       Called(x) => env.parseOk /\ CalledBefore("parseCSS", x)
  /\ (Called("parseCSS") /\ ~env.parseOk) =>
       pc = "failed" /\ error = "UnparseableColor"
  /\ (Called("extractColorParts") /\ ~env.classifyOk) =>
       pc = "failed" /\ error = "ClassifierError"
  /\ (Called("formatCSS") /\ result = NoResult) =>
       pc = "failed" /\ error = "UnsupportedFormat"
  /\ pc = "failed" => result = NoResult /\ error # "none"
  /\ result # NoResult =>
       pc = "done" /\ error = "none" /\ DOMAIN result = DOMAIN palette
C3_Witness == pc = "failed" /\ input.kind = "empty" /\ error = "InvalidInput"

\* The output representation the claim names.
Representation ==
  IF options.format # Undefined THEN Given(options.format)
  ELSE IF input.kind \in {"hex", "named"} THEN "hex"
  ELSE input.model

\* C4: every entry is formatted with the format option when it is given, else
\* with "hex" for a hex literal or a named color, else with the input's
\* notation family; a given format is used even where the inferred one differs.
C4_Format ==
  /\ Returned => \A t \in DOMAIN result : result[t].format = Representation
  /\ error = "UnsupportedFormat" => Representation \notin SupportedFormats
C4_Witness ==
  /\ Returned
  /\ options.format = {"oklch"}
  /\ input.kind = "func" /\ input.model = "rgb"

\* The calls that differ from this one in maxLightness, minLightness and
\* lightnessFactor only.
Variations ==
  {[options EXCEPT !.maxLightness = mx, !.minLightness = mn, !.lightnessFactor = lf] :
     mx \in Optional(MaxLightnesses), mn \in Optional(MinLightnesses),
     lf \in Optional(LightnessFactors)}
Outcome == [error |-> error, result |-> result]

\* C5 as claimed: in fixed scale every such call has the same outcome.
C5_Original ==
  (Finished /\ Defaulted(options).scale = "fixed") =>
    \A o \in Variations : swatch(input, o, env) = Outcome

\* C5: in fixed scale two calls that differ in maxLightness, minLightness and
\* lightnessFactor only have the same outcome when the bounds of both pass, or
\* of both fail, the check 0 <= minLightness < maxLightness <= 1.
C5_FixedIgnores ==
  (Finished /\ Defaulted(options).scale = "fixed") =>
    \A o \in Variations :
      LightnessValid(Defaulted(o)) = LightnessValid(Defaulted(options))
        => swatch(input, o, env) = Outcome
C5_Witness ==
  /\ Returned
  /\ opts.scale = "fixed"
  /\ options.maxLightness = {FDec(5, 10)}
  /\ options.minLightness = {Zero}
  /\ options.lightnessFactor = {FInt(3)}

DynamicTable == TableBuilt /\ opts.scale = "dynamic" /\ Positive(opts.lightnessFactor)

\* C6 as claimed: the first lightness is maxLightness, the last is
\* minLightness, and lightness falls strictly from each tone to the next.
C6_Original ==
  DynamicTable =>
    /\ FEq(palette[Lowest(DOMAIN palette)], opts.maxLightness)
    /\ FEq(palette[Highest(DOMAIN palette)], opts.minLightness)
    /\ \A t, u \in DOMAIN palette :
         Consecutive(DOMAIN palette, t, u) => FLt(palette[u], palette[t])

\* C6: in dynamic scale with lightnessFactor > 0 the first lightness is
\* maxLightness, the last is within one unit in the last place of
\* maxLightness of minLightness and below the first, and lightness never
\* rises from a tone to the next.
C6_Dynamic ==
  DynamicTable =>
    /\ FEq(palette[Lowest(DOMAIN palette)], opts.maxLightness)
    /\ FLe(FAbs(FSub(palette[Highest(DOMAIN palette)], opts.minLightness)),
           Ulp(opts.maxLightness))
    /\ FLt(palette[Highest(DOMAIN palette)], palette[Lowest(DOMAIN palette)])
    /\ \A t, u \in DOMAIN palette :
         Consecutive(DOMAIN palette, t, u) => FLe(palette[u], palette[t])
C6_Witness ==
  /\ DynamicTable
  /\ opts.swatchSteps = 21
  /\ opts.lightnessFactor = FInt(3)
  /\ \E t, u \in DOMAIN palette :
       Consecutive(DOMAIN palette, t, u) /\ FEq(palette[u], palette[t])

\* C7: the chroma of every shaded color, the one the formatter is given, is
\* in [0, 0.4].
C7_ChromaRange ==
  /\ \A t \in DOMAIN output :
       FLe(Zero, output[t].c) /\ FLe(output[t].c, FDec(4, 10))
  /\ \A t \in DOMAIN result :
       FLe(Zero, result[t].c) /\ FLe(result[t].c, FDec(4, 10))
C7_Witness ==
  /\ Returned
  /\ opts.variant = "vibrant"
  /\ \E t \in DOMAIN output :
       /\ FLt(FDec(4, 10), shadeColorUnclamped(lch, palette[t]).c)
       /\ FEq(result[t].c, FDec(4, 10))

\* The shaded colors of the same call without a variant.
BaseOutput ==
  Shaded(BaseColor(env.lch, "base"), Palette([opts EXCEPT !.variant = "base"]))
DeepShaded == ShadingDone /\ opts.variant = "deep"

BaseColorNoDeep(parsed, variant) ==
  [l |-> FDec(7, 10), c |-> FMul(parsed.c, chromaScale(variant)), h |-> parsed.h]
BaseColorLightnessFirst(parsed, variant) ==
  LET l1 == FDec(7, 10)
      l2 == IF variant = "deep" THEN FMul(l1, FDec(7, 10)) ELSE l1
      c1 == FMul(parsed.c, chromaScale(variant))
  IN [l |-> l2, c |-> c1, h |-> parsed.h]

C10_LightnessRange ==
  \A t \in DOMAIN palette : FLe(Zero, palette[t]) /\ FLe(palette[t], One)

====
